---- MODULE Spec2Model ----
(***************************************************************************)
(* q3-stats-bot: parse_content (a streaming pass over quick_xml events     *)
(* that builds a Match) and format_match_report (the MarkdownV2 report).   *)
(* Text is modelled by TLA+ strings, an Option by a sequence of length 0   *)
(* or 1, and a u32 by two 16-bit halves so that 32-bit arithmetic is exact.*)
(***************************************************************************)
EXTENDS Integers, Sequences, FiniteSets, TLC

VARIABLES
  game_match,      \* the Match being built (main.rs:159)
  current_team,    \* Option<Team> (main.rs:161)
  current_player,  \* Option<Player> (main.rs:162)
  open,            \* the reader's stack of unclosed element names
  ev,              \* the event read_event_into returned last
  nread,           \* number of events read before end-of-document
  seen,            \* which match, team and player elements the document opened so far
  result,          \* what parse_content returned, once it has
  output,          \* format_match_report's String, as the pieces pushed
  fmt,             \* "none" | "done" | "panic": the formatter's outcome
  mon              \* monitor_folder: where its loop is and what it did for the current event

vars == <<game_match, current_team, current_player, open, ev, nread, seen, result, output, fmt, mon>>

----------------------------------------------------------------------------
(* Bounds *)

\* events read before end-of-document, in the broad specification
MaxEvents == 4

\* file-system events the monitor receives
MaxFsEvents == 3

----------------------------------------------------------------------------
(* Option<T> *)

None == <<>>
Some(x) == <<x>>
IsSome(o) == Len(o) = 1
Unwrap(o) == o[1]

----------------------------------------------------------------------------
(* Text *)

Ch(s, i) == SubSeq(s, i, i)
Rest(s) == SubSeq(s, 2, Len(s))

----------------------------------------------------------------------------
(* u32: the value hi * 2^16 + lo.  Intermediate results may have hi >= 2^16 *)
(* (a value that does not fit 32 bits); Fits tells, Wrap truncates.         *)

Half == 2 ^ 16
U(h, l) == [hi |-> h, lo |-> l]
Zero == U(0, 0)
Small(n) == U(0, n)
Fits(a) == a.hi < Half
Wrap(a) == U(a.hi % Half, a.lo)
Lt(a, b) == a.hi < b.hi \/ (a.hi = b.hi /\ a.lo < b.lo)
Ge(a, b) == ~Lt(a, b)
MulSmall(a, k) == U(a.hi * k + ((a.lo * k) \div Half), (a.lo * k) % Half)
AddSmall(a, d) == U(a.hi + ((a.lo + d) \div Half), (a.lo + d) % Half)
Sub(a, b) ==
  IF a.lo >= b.lo THEN U(a.hi - b.hi, a.lo - b.lo)
  ELSE U(a.hi - b.hi - 1, a.lo + Half - b.lo)

\* quotient and remainder of a by b (b > 0), one hexadecimal digit of the
\* quotient at a time
RECURSIVE DivMod(_, _)
DivMod(a, b) ==
  IF Lt(a, b) THEN [q |-> Zero, r |-> a]
  ELSE LET d == DivMod(a, MulSmall(b, 16))
           k == CHOOSE k \in 0..15 : Ge(d.r, MulSmall(b, k)) /\ Lt(d.r, MulSmall(b, k + 1))
       IN [q |-> AddSmall(MulSmall(d.q, 16), k), r |-> Sub(d.r, MulSmall(b, k))]

Digits == <<"0", "1", "2", "3", "4", "5", "6", "7", "8", "9">>
IsDigit(c) == \E i \in 1..10 : Digits[i] = c
DigitVal(c) == (CHOOSE i \in 1..10 : Digits[i] = c) - 1

\* quotient and remainder of a by a small k (0 < k < 2^15), a half at a time
DivSmall(a, k) ==
  LET low == (a.hi % k) * Half + a.lo
  IN [q |-> U(a.hi \div k, low \div k), r |-> low % k]

\* Display for u32: the decimal digits, no sign, no padding
RECURSIVE ToDec(_)
ToDec(a) ==
  IF Lt(a, Small(10)) THEN Digits[a.lo + 1]
  ELSE LET d == DivSmall(a, 10) IN ToDec(d.q) \o Digits[d.r + 1]

\* acc * 10 + the digit c, as the mathematical value
PushDigit(acc, c) == AddSmall(MulSmall(acc, 10), DigitVal(c))

\* str::parse::<u32>: an optional leading '+', then one or more decimal digits,
\* accumulated with checked arithmetic; anything else is an Err.
RECURSIVE ParseDigits(_, _)
ParseDigits(s, acc) ==
  CASE Len(s) = 0 -> Some(acc)
    [] Len(s) > 0 /\ ~IsDigit(Ch(s, 1)) -> None
    [] Len(s) > 0 /\ IsDigit(Ch(s, 1)) /\ ~Fits(PushDigit(acc, Ch(s, 1))) -> None
    [] OTHER -> ParseDigits(Rest(s), PushDigit(acc, Ch(s, 1)))

ParseU32(s) ==
  IF Len(s) = 0 THEN None
  ELSE IF Len(s) = 1 /\ Ch(s, 1) \in {"+", "-"} THEN None
  ELSE IF Ch(s, 1) = "+" THEN ParseDigits(Rest(s), Zero)
  ELSE ParseDigits(s, Zero)

\* str::parse::<bool>: exactly "true" or "false"
ParseBool(s) ==
  IF s = "true" THEN Some(TRUE) ELSE IF s = "false" THEN Some(FALSE) ELSE None

unwrap_or(o, d) == IF IsSome(o) THEN Unwrap(o) ELSE d

----------------------------------------------------------------------------
(* The data model, with the values #[derive(Default)] gives *)

Weapon(n, h, s, k) == [name |-> n, hits |-> h, shots |-> s, kills |-> k]
PlayerDefault == [name |-> "", stats |-> <<>>, weapons |-> <<>>]
TeamDefault == [score |-> "", players |-> <<>>]
\* mutant of MatchDefault: the flag starts true
MatchDefault_team_game ==
  [map |-> "", match_type |-> "", duration |-> "", is_team_game |-> TRUE, teams |-> <<>>]

MatchDefault ==
  [map |-> "", match_type |-> "", duration |-> "", is_team_game |-> FALSE, teams |-> <<>>]

BANNED_STATS == {"MH", "RA", "YA", "GA", "Quad", "Haste", "Blue Flag", "Red Flag"}

----------------------------------------------------------------------------
(* Attributes of a tag: the sequence of <<key, value>> pairs e.attributes()  *)
(* yields, keys distinct.                                                    *)

HasAttr(attrs, k) == \E i \in 1..Len(attrs) : attrs[i][1] = k
\* attr_map.get(k), as an Option
GetAttr(attrs, k) ==
  IF HasAttr(attrs, k)
  THEN Some(attrs[CHOOSE i \in 1..Len(attrs) : attrs[i][1] = k][2])
  ELSE None

\* QName::local_name: what follows the first ':' of the name, or the whole name
RECURSIVE AfterColon(_)
AfterColon(s) ==
  IF Len(s) = 0 THEN None
  ELSE IF Ch(s, 1) = ":" THEN Some(Rest(s))
  ELSE AfterColon(Rest(s))

LocalName(n) == unwrap_or(AfterColon(n), n)

\* the attribute loop of the "match" arm: each attribute in turn
RECURSIVE MatchAttrLoop(_, _)
MatchAttrLoop(m, attrs) ==
  IF attrs = <<>> THEN m
  ELSE LET k == Head(attrs)[1]
           v == Head(attrs)[2]
           m1 == IF k = "map" THEN [m EXCEPT !.map = v]
                 ELSE IF k = "type" THEN [m EXCEPT !.match_type = v]
                 ELSE IF k = "duration" THEN [m EXCEPT !.duration = v]
                 ELSE IF k = "isTeamGame"
                      THEN [m EXCEPT !.is_team_game = unwrap_or(ParseBool(v), FALSE)]
                 ELSE m
       IN MatchAttrLoop(m1, Tail(attrs))

\* the attribute loop of the "team" arm
RECURSIVE TeamAttrLoop(_, _)
TeamAttrLoop(t, attrs) ==
  IF attrs = <<>> THEN t
  ELSE TeamAttrLoop(IF Head(attrs)[1] = "score" THEN [t EXCEPT !.score = Head(attrs)[2]] ELSE t,
                    Tail(attrs))

\* the attribute loop of the "player" arm
RECURSIVE PlayerAttrLoop(_, _)
PlayerAttrLoop(p, attrs) ==
  IF attrs = <<>> THEN p
  ELSE PlayerAttrLoop(IF Head(attrs)[1] = "name" THEN [p EXCEPT !.name = Head(attrs)[2]] ELSE p,
                      Tail(attrs))

\* mutant of CounterAttr: an unparsable value saturates instead of giving 0
CounterAttr_saturating(attrs, k) ==
  IF HasAttr(attrs, k)
  THEN unwrap_or(ParseU32(Unwrap(GetAttr(attrs, k))), U(Half - 1, Half - 1))
  ELSE Zero

\* attr_map.get(k).map(|b| parse().unwrap_or(0)).unwrap_or(0)
CounterAttr(attrs, k) ==
  IF HasAttr(attrs, k) THEN unwrap_or(ParseU32(Unwrap(GetAttr(attrs, k))), Zero) ELSE Zero

\* player.stats.iter().find(|(n, _)| n == "Score")
FindScore(stats) ==
  IF \E i \in 1..Len(stats) : stats[i][1] = "Score"
  THEN LET S == {i \in 1..Len(stats) : stats[i][1] = "Score"}
       IN Some(stats[CHOOSE i \in S : \A j \in S : i <= j])
  ELSE None

----------------------------------------------------------------------------
(* format_match_report *)

Reserved ==
  {"*", "_", "[", "]", "(", ")", "~", ">", "#", "+", "-", "=", "|", "{", "}", ".", "!"}

\* mutant of escape_markdown: '.' and '!' are let through
RECURSIVE escape_markdown_short(_)
escape_markdown_short(message) ==
  IF Len(message) = 0 THEN ""
  ELSE (IF Ch(message, 1) \in Reserved \ {".", "!"} THEN "\\" ELSE "")
         \o Ch(message, 1) \o escape_markdown_short(Rest(message))

RECURSIVE escape_markdown(_)
escape_markdown(message) ==
  IF Len(message) = 0 THEN ""
  ELSE (IF Ch(message, 1) \in Reserved THEN "\\" ELSE "")
         \o Ch(message, 1) \o escape_markdown(Rest(message))

\* w.hits * 100 as the mathematical product (it may not fit 32 bits)
HitsTimes100(w) == MulSmall(w.hits, 100)

\* the branch of the accuracy expression that multiplies is taken, and the
\* product does not fit u32
MulOverflows(w) ==
  /\ ~(Ge(w.hits, w.shots) /\ Lt(Zero, w.hits))
  /\ Lt(Zero, w.shots)
  /\ ~Fits(HitsTimes100(w))

\* mutant of Accuracy: the ratio is taken before the cap is looked at
Accuracy_ratio_first(w) ==
  IF Lt(Zero, w.shots) THEN DivMod(Wrap(HitsTimes100(w)), w.shots).q
  ELSE IF Ge(w.hits, w.shots) /\ Lt(Zero, w.hits) THEN Small(100)
  ELSE Zero

\* the accuracy expression, the product wrapping (a build without overflow checks)
Accuracy(w) ==
  IF Ge(w.hits, w.shots) /\ Lt(Zero, w.hits) THEN Small(100)
  ELSE IF Lt(Zero, w.shots) THEN DivMod(Wrap(HitsTimes100(w)), w.shots).q
  ELSE Zero

Piece(site, t) == [at |-> site, text |-> t]

\* the code-block fence, three backticks in the source: a TLA+ string cannot
\* hold a backtick, so three apostrophes stand for it
Fence == "'''"

WeaponPiece(w) ==
  Piece("weapon",
        escape_markdown(w.name) \o ": Shots: " \o ToDec(w.shots) \o " \\| Acc. "
          \o ToDec(Accuracy(w)) \o "% \\| Kills: " \o ToDec(w.kills) \o "\n")

StatPiece(st) ==
  Piece("stat", escape_markdown(st[1]) \o ": " \o escape_markdown(st[2]) \o "\n")

RECURSIVE StatPieces(_)
StatPieces(stats) ==
  IF stats = <<>> THEN <<>> ELSE <<StatPiece(Head(stats))>> \o StatPieces(Tail(stats))

RECURSIVE WeaponPieces(_)
WeaponPieces(ws) ==
  IF ws = <<>> THEN <<>> ELSE <<WeaponPiece(Head(ws))>> \o WeaponPieces(Tail(ws))

PlayerPieces(player) ==
  <<Piece("player", Fence \o "\nPlayer: " \o player.name \o "\n")>>
    \o StatPieces(player.stats)
    \o (IF player.weapons # <<>>
        THEN <<Piece("weapons", "Weapons: \n")>> \o WeaponPieces(player.weapons)
        ELSE <<>>)
    \o <<Piece("fence", Fence \o "\n")>>

RECURSIVE PlayersPieces(_)
PlayersPieces(ps) ==
  IF ps = <<>> THEN <<>> ELSE PlayerPieces(Head(ps)) \o PlayersPieces(Tail(ps))

\* mutant of TeamLabel: a label of its own for every index
TeamLabel_ordinal(i) ==
  IF i = 0 THEN "Team One" ELSE IF i = 1 THEN "Team Two" ELSE "Team Three"

TeamLabel(i) == IF i = 0 THEN "Team One" ELSE "Team Two"

\* the body of the loop over m.teams.iter().enumerate(); i counts from 0
TeamPieces(m, i, team) ==
  (IF m.is_team_game
   THEN <<Piece("team", "*" \o TeamLabel(i) \o "*: *" \o escape_markdown(team.score) \o "*\n")>>
   ELSE <<>>)
    \o PlayersPieces(team.players)

RECURSIVE TeamsPieces(_, _)
TeamsPieces(m, i) ==
  IF i >= Len(m.teams) THEN <<>>
  ELSE TeamPieces(m, i, m.teams[i + 1]) \o TeamsPieces(m, i + 1)

\* the pieces pushed onto output, in order; the String is their concatenation
format_match_report(m) ==
  <<Piece("header", "*Match concluded*\n"),
    Piece("summary",
          "Map: " \o escape_markdown(m.map) \o " \\| Type: " \o escape_markdown(m.match_type)
            \o " \\| Duration: " \o escape_markdown(m.duration) \o "\n\n")>>
    \o TeamsPieces(m, 0)

\* the weapons of a report, in the order the formatter visits them
RECURSIVE PlayersWeapons(_)
PlayersWeapons(ps) ==
  IF ps = <<>> THEN <<>> ELSE Head(ps).weapons \o PlayersWeapons(Tail(ps))

RECURSIVE TeamsWeapons(_)
TeamsWeapons(ts) ==
  IF ts = <<>> THEN <<>> ELSE PlayersWeapons(Head(ts).players) \o TeamsWeapons(Tail(ts))

\* some weapon of the report makes w.hits * 100 overflow
ReportOverflows(m) ==
  LET ws == TeamsWeapons(m.teams) IN \E i \in 1..Len(ws) : MulOverflows(ws[i])

----------------------------------------------------------------------------
(* parse_content: the locals of the loop as one value, and what each arm of  *)
(* the match on the event does to them                                       *)

Locals(gm, ct, cp) == [gm |-> gm, ct |-> ct, cp |-> cp]
Here == Locals(game_match, current_team, current_player)

\* mutant of on_start: a match element resets map, type and duration first
on_start_fresh(s, name, attrs) ==
  IF name = "match"
  THEN [s EXCEPT !.gm = MatchAttrLoop([s.gm EXCEPT !.map = "", !.match_type = "", !.duration = ""],
                                      attrs)]
  ELSE IF name = "team" THEN [s EXCEPT !.ct = Some(TeamAttrLoop(TeamDefault, attrs))]
  ELSE IF name = "player" THEN [s EXCEPT !.cp = Some(PlayerAttrLoop(PlayerDefault, attrs))]
  ELSE s

\* Ok(Event::Start(e)) => match e.name().as_ref()
on_start(s, name, attrs) ==
  IF name = "match" THEN [s EXCEPT !.gm = MatchAttrLoop(s.gm, attrs)]
  ELSE IF name = "team" THEN [s EXCEPT !.ct = Some(TeamAttrLoop(TeamDefault, attrs))]
  ELSE IF name = "player" THEN [s EXCEPT !.cp = Some(PlayerAttrLoop(PlayerDefault, attrs))]
  ELSE s

\* mutant of SoloTeam: the player's Score statistic is not consulted
SoloTeam_no_score(player) == [score |-> TeamDefault.score, players |-> <<player>>]

\* the Team made for a player that closes outside of a team
SoloTeam(player) ==
  LET found == FindScore(player.stats)
  IN [score |-> IF IsSome(found) THEN Unwrap(found)[2] ELSE TeamDefault.score,
      players |-> <<player>>]

\* mutant of close_team: the team is put in front of the teams
close_team_front(s) ==
  IF IsSome(s.ct)
  THEN [s EXCEPT !.gm.teams = <<Unwrap(s.ct)>> \o @, !.ct = None]
  ELSE s

\* the b"team" arm of Event::End
close_team(s) ==
  IF IsSome(s.ct)
  THEN [s EXCEPT !.gm.teams = Append(@, Unwrap(s.ct)), !.ct = None]
  ELSE s

\* mutant of close_player: the player's Score also becomes the open Team's score
close_player_score(s) ==
  IF IsSome(s.cp)
  THEN IF IsSome(s.ct)
       THEN [s EXCEPT !.ct = Some([score |-> SoloTeam(Unwrap(s.cp)).score,
                                   players |-> Append(Unwrap(s.ct).players, Unwrap(s.cp))]),
                      !.cp = None]
       ELSE [s EXCEPT !.gm.teams = Append(@, SoloTeam(Unwrap(s.cp))), !.cp = None]
  ELSE s

\* the b"player" arm of Event::End
close_player(s) ==
  IF IsSome(s.cp)
  THEN IF IsSome(s.ct)
       THEN [s EXCEPT !.ct = Some([Unwrap(s.ct) EXCEPT !.players = Append(@, Unwrap(s.cp))]),
                      !.cp = None]
       ELSE [s EXCEPT !.gm.teams = Append(@, SoloTeam(Unwrap(s.cp))), !.cp = None]
  ELSE s

\* Ok(Event::End(e)) => match e.name().local_name().as_ref()
on_end(s, name) ==
  IF LocalName(name) = "team" THEN close_team(s)
  ELSE IF LocalName(name) = "player" THEN close_player(s)
  ELSE s

\* mutant of push_stat: a pair replaces the earlier pairs of its name
push_stat_dedup(s, attrs) ==
  IF HasAttr(attrs, "name") /\ HasAttr(attrs, "value")
       /\ Unwrap(GetAttr(attrs, "name")) \notin BANNED_STATS /\ IsSome(s.cp)
  THEN [s EXCEPT !.cp = Some([Unwrap(s.cp) EXCEPT
         !.stats = Append(SelectSeq(@, LAMBDA st : st[1] # Unwrap(GetAttr(attrs, "name"))),
                          <<Unwrap(GetAttr(attrs, "name")), Unwrap(GetAttr(attrs, "value"))>>)])]
  ELSE s

\* mutant of push_stat: the denylist is not consulted
push_stat_unfiltered(s, attrs) ==
  IF HasAttr(attrs, "name") /\ HasAttr(attrs, "value") /\ IsSome(s.cp)
  THEN [s EXCEPT !.cp = Some([Unwrap(s.cp) EXCEPT
         !.stats = Append(@, <<Unwrap(GetAttr(attrs, "name")), Unwrap(GetAttr(attrs, "value"))>>)])]
  ELSE s

\* the b"stat" arm of Event::Empty
push_stat(s, attrs) ==
  IF HasAttr(attrs, "name") /\ HasAttr(attrs, "value")
  THEN LET name == Unwrap(GetAttr(attrs, "name"))
           val == Unwrap(GetAttr(attrs, "value"))
       IN IF name \notin BANNED_STATS /\ IsSome(s.cp)
          THEN [s EXCEPT !.cp = Some([Unwrap(s.cp) EXCEPT !.stats = Append(@, <<name, val>>)])]
          ELSE s
  ELSE s

\* the Weapon built from a weapon element that has a name
WeaponOf(attrs) ==
  Weapon(Unwrap(GetAttr(attrs, "name")), CounterAttr(attrs, "hits"),
         CounterAttr(attrs, "shots"), CounterAttr(attrs, "kills"))

\* mutant of push_weapon: a weapon element without a name is kept, unnamed
push_weapon_nameless(s, attrs) ==
  IF IsSome(s.cp)
  THEN [s EXCEPT !.cp = Some([Unwrap(s.cp) EXCEPT
         !.weapons = Append(@, Weapon(unwrap_or(GetAttr(attrs, "name"), ""),
                                      CounterAttr(attrs, "hits"), CounterAttr(attrs, "shots"),
                                      CounterAttr(attrs, "kills")))])]
  ELSE s

\* the b"weapon" arm of Event::Empty
push_weapon(s, attrs) ==
  IF HasAttr(attrs, "name") /\ IsSome(s.cp)
  THEN [s EXCEPT !.cp = Some([Unwrap(s.cp) EXCEPT !.weapons = Append(@, WeaponOf(attrs))])]
  ELSE s

\* mutant of on_empty: a self-closing match, team or player acts as its opening
on_empty_opens(s, name, attrs) ==
  IF name = "stat" THEN push_stat(s, attrs)
  ELSE IF name = "weapon" THEN push_weapon(s, attrs)
  ELSE on_start(s, name, attrs)

\* Ok(Event::Empty(e)) => match e.name().as_ref()
on_empty(s, name, attrs) ==
  IF name = "stat" THEN push_stat(s, attrs)
  ELSE IF name = "weapon" THEN push_weapon(s, attrs)
  ELSE s

\* Err(e) => bail!("Error at position ...")
StructuralFailure == [tag |-> "Err", kind |-> "structural"]

\* mutant of finish: || where the code has &&
finish_or(m) ==
  IF m.map = "" \/ m.teams = <<>>
  THEN [tag |-> "Err", kind |-> "empty"]
  ELSE [tag |-> "Ok", value |-> m]

\* after the loop: the emptiness check and the return value
finish(m) ==
  IF m.map = "" /\ m.teams = <<>>
  THEN [tag |-> "Err", kind |-> "empty"]
  ELSE [tag |-> "Ok", value |-> m]

Pending == [tag |-> "Pending"]

----------------------------------------------------------------------------
(* The events of a document.  The reader checks that an end tag closes the   *)
(* innermost unclosed start tag (anything else is an Err), so an End carries *)
(* the name on top of `open`.                                                *)

Event(kind, name, attrs) == [kind |-> kind, name |-> name, attrs |-> attrs]
Attr(k, v) == <<k, v>>

Reading == result.tag = "Pending"
Top == open[Len(open)]
Pop == SubSeq(open, 1, Len(open) - 1)

\* what `seen` records of an event: the opening of a match element (whether it
\* lacks an isTeamGame attribute, whether it carries isTeamGame="true"), of a
\* team and of a player element
Tags(e) ==
  IF e.kind # "Start" THEN {}
  ELSE IF e.name = "match"
       THEN {"match"}
              \cup (IF HasAttr(e.attrs, "isTeamGame") THEN {} ELSE {"match without isTeamGame"})
              \cup (IF GetAttr(e.attrs, "isTeamGame") = Some("true")
                    THEN {"match with isTeamGame=true"} ELSE {})
  ELSE IF e.name \in {"team", "player"} THEN {e.name}
  ELSE {}

\* one more event read; the locals become s
Read(e, s) ==
  /\ Reading
  /\ ev' = e
  /\ nread' = nread + 1
  /\ seen' = seen \cup Tags(e)
  /\ game_match' = s.gm
  /\ current_team' = s.ct
  /\ current_player' = s.cp
  /\ UNCHANGED <<result, output, fmt, mon>>

ReadStart(name, attrs) ==
  /\ Read(Event("Start", name, attrs), on_start(Here, name, attrs))
  /\ open' = Append(open, name)

ReadEnd ==
  /\ open # <<>>
  /\ Read(Event("End", Top, <<>>), on_end(Here, Top))
  /\ open' = Pop

ReadEmpty(name, attrs) ==
  /\ Read(Event("Empty", name, attrs), on_empty(Here, name, attrs))
  /\ UNCHANGED open

StartMatch(A) == \E a \in A : ReadStart("match", a)
StartTeam(A) == \E a \in A : ReadStart("team", a)
StartPlayer(A) == \E a \in A : ReadStart("player", a)
StartOther(N) == \E n \in N \ {"match", "team", "player"} : ReadStart(n, <<>>)
StartLeaf(E) == \E e \in E : e[1] \in {"stat", "weapon"} /\ ReadStart(e[1], e[2])

EndTeam == Reading /\ open # <<>> /\ LocalName(Top) = "team" /\ ReadEnd
EndPlayer == Reading /\ open # <<>> /\ LocalName(Top) = "player" /\ ReadEnd
EndOther == Reading /\ open # <<>> /\ LocalName(Top) \notin {"team", "player"} /\ ReadEnd

EmptyStat(A) == \E a \in A : ReadEmpty("stat", a)
EmptyWeapon(A) == \E a \in A : ReadEmpty("weapon", a)
EmptyOther(E) == \E e \in E : e[1] \notin {"stat", "weapon"} /\ ReadEmpty(e[1], e[2])

\* text, comments, declarations and the like: the `_ => ()` arm
ReadText ==
  /\ Read(Event("Text", "", <<>>), Here)
  /\ UNCHANGED open

\* mutant of ReadErr: the error leaves the loop (break) instead of returning
ReadErr_break ==
  /\ Reading
  /\ ev' = Event("Err", "", <<>>)
  /\ result' = finish(game_match)
  /\ UNCHANGED <<game_match, current_team, current_player, open, nread, seen, output, fmt, mon>>

ReadErr ==
  /\ Reading
  /\ ev' = Event("Err", "", <<>>)
  /\ result' = StructuralFailure
  /\ UNCHANGED <<game_match, current_team, current_player, open, nread, seen, output, fmt, mon>>

ReadEof ==
  /\ Reading
  /\ ev' = Event("Eof", "", <<>>)
  /\ result' = finish(game_match)
  /\ UNCHANGED <<game_match, current_team, current_player, open, nread, seen, output, fmt, mon>>

\* format_match_report(&match_data) on a report parse_content returned.  The
\* build decides what an overflowing w.hits * 100 does: with overflow checks
\* it panics, without them it wraps.
Format ==
  /\ result.tag = "Ok"
  /\ fmt = "none"
  /\ \E overflow_checks \in BOOLEAN :
       IF overflow_checks /\ ReportOverflows(result.value)
       THEN fmt' = "panic" /\ output' = <<>>
       ELSE fmt' = "done" /\ output' = format_match_report(result.value)
  /\ UNCHANGED <<game_match, current_team, current_player, open, ev, nread, seen, result, mon>>

----------------------------------------------------------------------------
(* monitor_folder: the state of its loop *)

\* a file: whether read_to_string succeeds on it, and its content as the
\* events the reader finds in it, followed by a structural error if bad
File(readable, bad, events) == [readable |-> readable, bad |-> bad, events |-> events]
NoFile == File(FALSE, FALSE, <<>>)

\* what rx.recv() returned: kind is "create", "modify" (any kind but Create),
\* "watcherr" (Ok(Err(e))) or "chanerr" (Err(e)); path tells what paths.last() is
FsEvent(kind, path, file) == [kind |-> kind, path |-> path, file |-> file]

\* the loop blocked in rx.recv(), nothing received yet; nsent counts the
\* messages delivered, checks tells whether the build has overflow checks
Waiting(checks) ==
  [pc |-> "recv", nev |-> 0, event |-> FsEvent("none", "none", NoFile),
   did |-> <<>>, msg |-> <<>>, nsent |-> 0, overflow_checks |-> checks]

----------------------------------------------------------------------------
(* Inputs of the broad specification: every kind of event, few events *)

MatchAttrs ==
  { <<Attr("map", "q3dm6"), Attr("type", "TDM"), Attr("duration", "10:00"),
      Attr("isTeamGame", "true")>>,
    <<>>,
    <<Attr("type", "1v1"), Attr("isTeamGame", "yes")>> }

TeamAttrs == { <<Attr("score", "5")>>, <<>> }

PlayerAttrs == { <<Attr("name", "P1")>>, <<>> }

OtherNames == {"x:player", "x:team"}

\* stat and weapon written as an open tag, with the attributes of a
\* self-closing one
LeafStarts ==
  { <<"stat", <<Attr("name", "Score"), Attr("value", "7")>>>>,
    <<"weapon", <<Attr("name", "MG"), Attr("hits", "13"), Attr("shots", "29")>>>> }

StatAttrs ==
  { <<Attr("name", "Score"), Attr("value", "7")>>,
    <<Attr("name", "MH"), Attr("value", "1")>>,
    <<Attr("name", "Kills")>> }

WeaponAttrs ==
  { <<Attr("name", "MG"), Attr("hits", "13"), Attr("shots", "29"), Attr("kills", "+2")>>,
    <<Attr("hits", "1"), Attr("shots", "2")>>,
    <<Attr("name", "RL"), Attr("hits", "42949673"), Attr("shots", "4294967295")>>,
    <<Attr("name", "SG"), Attr("hits", "x"), Attr("shots", "-3"), Attr("kills", "4294967296")>> }

OtherEmpty ==
  { <<"match", <<Attr("map", "q3dm6"), Attr("isTeamGame", "true")>>>>,
    <<"team", <<Attr("score", "5")>>>>,
    <<"player", <<Attr("name", "P1")>>>>,
    <<"x:stat", <<Attr("name", "Score"), Attr("value", "7")>>>> }

Init ==
  /\ game_match = MatchDefault
  /\ current_team = None
  /\ current_player = None
  /\ open = <<>>
  /\ ev = Event("None", "", <<>>)
  /\ nread = 0
  /\ seen = {}
  /\ result = Pending
  /\ output = <<>>
  /\ fmt = "none"
  /\ mon = Waiting(FALSE)

Next ==
  \/ nread < MaxEvents /\ StartMatch(MatchAttrs)
  \/ nread < MaxEvents /\ StartTeam(TeamAttrs)
  \/ nread < MaxEvents /\ StartPlayer(PlayerAttrs)
  \/ nread < MaxEvents /\ StartOther(OtherNames)
  \/ nread < MaxEvents /\ StartLeaf(LeafStarts)
  \/ nread < MaxEvents /\ EndTeam
  \/ nread < MaxEvents /\ EndPlayer
  \/ nread < MaxEvents /\ EndOther
  \/ nread < MaxEvents /\ EmptyStat(StatAttrs)
  \/ nread < MaxEvents /\ EmptyWeapon(WeaponAttrs)
  \/ nread < MaxEvents /\ EmptyOther(OtherEmpty)
  \/ nread < MaxEvents /\ ReadText
  \/ ReadErr
  \/ ReadEof
  \/ Format

Spec == Init /\ [][Next]_vars

----------------------------------------------------------------------------
(* The formatter on its own: parse_content as a function of the events of a *)
(* whole document, and documents whose fields range over numerals and texts *)

on_event(s, e) ==
  CASE e.kind = "Start" -> on_start(s, e.name, e.attrs)
    [] e.kind = "End" -> on_end(s, e.name)
    [] e.kind = "Empty" -> on_empty(s, e.name, e.attrs)
    [] OTHER -> s

RECURSIVE run_events(_, _)
run_events(s, es) ==
  IF es = <<>> THEN s ELSE run_events(on_event(s, Head(es)), Tail(es))

\* parse_content on a document the reader finds no structural error in
parse_content(es) == finish(run_events(Locals(MatchDefault, None, None), es).gm)

Numerals ==
  {"0", "1", "13", "29", "40", "50", "100",
   "42949672", "42949673", "2147483648", "4294967295"}

Texts == {"q3dm6", "", "a.b-c_d", "[x](y)", "#1+2=3*", "{~a|b}>!", "\\."}

\* <player name="P1"><weapon name="MG" hits=h shots=s kills="2"/></player>
WeaponDoc(h, s) ==
  <<Event("Start", "player", <<Attr("name", "P1")>>),
    Event("Empty", "weapon",
          <<Attr("name", "MG"), Attr("hits", h), Attr("shots", s), Attr("kills", "2")>>),
    Event("End", "player", <<>>)>>

\* a team game with one team, one player, one statistic and one weapon, whose
\* texts are t and u
TextDoc(t, u) ==
  <<Event("Start", "match",
          <<Attr("map", t), Attr("type", u), Attr("duration", t), Attr("isTeamGame", "true")>>),
    Event("Start", "team", <<Attr("score", u)>>),
    Event("Start", "player", <<Attr("name", t)>>),
    Event("Empty", "stat", <<Attr("name", t), Attr("value", u)>>),
    Event("Empty", "weapon",
          <<Attr("name", u), Attr("hits", "13"), Attr("shots", "29"), Attr("kills", "2")>>),
    Event("End", "player", <<>>),
    Event("End", "team", <<>>),
    Event("End", "match", <<>>)>>

\* <team score=sc></team>
TeamElement(sc) ==
  <<Event("Start", "team", <<Attr("score", sc)>>), Event("End", "team", <<>>)>>

Scores == {"5", "-1"}

\* a match with isTeamGame=g and three teams, of scores sc[1], sc[2], sc[3]
TeamsDoc(g, sc) ==
  <<Event("Start", "match", <<Attr("map", "q3dm6"), Attr("isTeamGame", g)>>)>>
    \o TeamElement(sc[1]) \o TeamElement(sc[2]) \o TeamElement(sc[3])
    \o <<Event("End", "match", <<>>)>>

\* <player name=n></player>
PlayerElement(n) ==
  <<Event("Start", "player", <<Attr("name", n)>>), Event("End", "player", <<>>)>>

\* a match with isTeamGame=g, a team of players A and B, then a team of player C
OrderDoc(g) ==
  <<Event("Start", "match", <<Attr("map", "q3dm6"), Attr("isTeamGame", g)>>),
    Event("Start", "team", <<Attr("score", "5")>>)>>
    \o PlayerElement("A") \o PlayerElement("B")
    \o <<Event("End", "team", <<>>), Event("Start", "team", <<Attr("score", "3")>>)>>
    \o PlayerElement("C")
    \o <<Event("End", "team", <<>>), Event("End", "match", <<>>)>>

FmtDocs ==
  {WeaponDoc(h, s) : h \in Numerals, s \in Numerals}
    \cup {TextDoc(t, u) : t \in Texts, u \in Texts}
    \cup {TeamsDoc(g, sc) : g \in {"true", "false"}, sc \in [1..3 -> Scores]}
    \cup {OrderDoc(g) : g \in {"true", "false"}}

\* parse_content has returned Ok on one of the documents
InitFmt ==
  \E doc \in FmtDocs :
    /\ result = parse_content(doc)
    /\ game_match = result.value
    /\ current_team = None
    /\ current_player = None
    /\ open = <<>>
    /\ ev = Event("Eof", "", <<>>)
    /\ nread = Len(doc)
    /\ seen = UNION {Tags(doc[i]) : i \in 1..Len(doc)}
    /\ output = <<>>
    /\ fmt = "none"
    /\ mon = Waiting(FALSE)

NextFmt == Format

SpecFmt == InitFmt /\ [][NextFmt]_vars

----------------------------------------------------------------------------
(* monitor_folder: one action per stretch of the loop body between two      *)
(* points where it waits (rx.recv(), the sleep and the read, the send).     *)
(* mon.did lists, in order, what was done for the event received last.      *)

parser_vars ==
  <<game_match, current_team, current_player, open, ev, nread, seen, result, output, fmt>>

\* parse_content on the content of a file
parse_file(f) == IF f.bad THEN StructuralFailure ELSE parse_content(f.events)

MonFiles ==
  { File(FALSE, FALSE, <<>>),
    File(TRUE, TRUE, <<Event("Start", "match", <<Attr("map", "q3dm6")>>)>>),
    File(TRUE, FALSE, <<>>),
    File(TRUE, FALSE, WeaponDoc("13", "29")),
    File(TRUE, FALSE, WeaponDoc("42949673", "4294967295")) }

\* rx.recv() returns e; the loop body runs until it waits again, at next_pc
Recv(e, next_pc, entries) ==
  /\ mon.pc = "recv"
  /\ mon.nev < MaxFsEvents
  /\ mon' = [mon EXCEPT !.nev = @ + 1, !.event = e, !.did = entries, !.msg = <<>>,
                        !.pc = next_pc]
  /\ UNCHANGED parser_vars

\* EventKind::Create with a path that is not a directory: logged, then the sleep
RecvCreateFile(F) ==
  \E f \in F : Recv(FsEvent("create", "file", f), "read", <<"log:detected">>)

\* if fpath.is_dir() { continue; }
RecvCreateDir == Recv(FsEvent("create", "dir", NoFile), "recv", <<>>)

\* e.paths.last() is None
RecvCreateNoPath == Recv(FsEvent("create", "none", NoFile), "recv", <<>>)

\* _ => ()
RecvOtherKind ==
  \E f \in MonFiles : Recv(FsEvent("modify", "file", f), "recv", <<>>)

\* Ok(Err(e)) => log::error!("Watcher error")
RecvWatcherError == Recv(FsEvent("watcherr", "none", NoFile), "recv", <<"log:watcher">>)

\* Err(e) => { log::error!("Channel error"); break; }
RecvChannelError == Recv(FsEvent("chanerr", "none", NoFile), "stopped", <<"log:channel">>)

\* after the sleep: read_to_string, parse_content and format_match_report, up
\* to the send
ReadDone ==
  /\ mon.pc = "read"
  /\ LET f == mon.event.file
         r == parse_file(f)
     IN mon' =
          IF ~f.readable
          THEN [mon EXCEPT !.did = @ \o <<"read:err", "log:read">>, !.pc = "recv"]
          ELSE IF r.tag = "Err"
          THEN [mon EXCEPT !.did = @ \o <<"read:ok", "parse:err", "log:parse">>, !.pc = "recv"]
          ELSE IF mon.overflow_checks /\ ReportOverflows(r.value)
          THEN [mon EXCEPT !.did = @ \o <<"read:ok", "parse:ok", "format:panic">>,
                           !.pc = "panicked"]
          ELSE [mon EXCEPT !.did = @ \o <<"read:ok", "parse:ok", "format:ok">>,
                           !.msg = format_match_report(r.value), !.pc = "send"]
  /\ UNCHANGED parser_vars

\* send_message(..).await returns: an Err is logged
SendDone ==
  /\ mon.pc = "send"
  /\ \E ok \in BOOLEAN :
       mon' = [mon EXCEPT !.did = @ \o (IF ok THEN <<"send:ok">> ELSE <<"send:err", "log:send">>),
                          !.nsent = IF ok THEN @ + 1 ELSE @,
                          !.pc = "recv"]
  /\ UNCHANGED parser_vars

InitMon ==
  /\ game_match = MatchDefault
  /\ current_team = None
  /\ current_player = None
  /\ open = <<>>
  /\ ev = Event("None", "", <<>>)
  /\ nread = 0
  /\ seen = {}
  /\ result = Pending
  /\ output = <<>>
  /\ fmt = "none"
  /\ \E checks \in BOOLEAN : mon = Waiting(checks)

NextMon ==
  \/ RecvCreateFile(MonFiles)
  \/ RecvCreateDir
  \/ RecvCreateNoPath
  \/ RecvOtherKind
  \/ RecvWatcherError
  \/ RecvChannelError
  \/ ReadDone
  \/ SendDone

SpecMon == InitMon /\ [][NextMon]_vars

----------------------------------------------------------------------------
(* Properties of parse_content, checked under Spec *)

\* the step reads an event, which is the closing of a player-kind element
PlayerCloseStep ==
  nread' = nread + 1 /\ ev'.kind = "End" /\ LocalName(ev'.name) = "player"

Last(seq) == seq[Len(seq)]

\* the value of the first "Score" statistic, the empty string if there is none
RefScore(stats) ==
  LET S == {i \in 1..Len(stats) : stats[i][1] = "Score"}
  IN IF S = {} THEN "" ELSE stats[CHOOSE i \in S : \A j \in S : i <= j][2]

NoData == result.tag = "Err" /\ result.kind = "empty"

\* C2: at end-of-document parse_content fails with the empty-result failure
\* exactly when the map name is empty and no Team was appended, and returns
\* the Match otherwise; a document that opened no match, team or player
\* element fails with it
C2_EmptyResult ==
  ev.kind = "Eof"
    => /\ NoData <=> (game_match.map = "" /\ game_match.teams = <<>>)
       /\ ~NoData => (result.tag = "Ok" /\ result.value = game_match)
       /\ seen \cap {"match", "team", "player"} = {} => NoData

C2_Witness ==
  /\ ev.kind = "Eof" /\ NoData
  /\ "team" \in seen /\ "player" \in seen /\ "match" \in seen

\* C3: a structural error makes parse_content fail at once with the
\* structural failure, which carries no Match, whatever was accumulated; no
\* event is read after it and nothing is formatted
C3_StructuralFailure ==
  /\ [](ev.kind = "Err"
          => /\ result.tag = "Err" /\ result.kind = "structural"
             /\ DOMAIN result = {"tag", "kind"})
  /\ [][ev.kind = "Err" => UNCHANGED vars]_vars

C3_Witness ==
  /\ ev.kind = "Err" /\ result.tag = "Err"
  /\ game_match.map # "" /\ game_match.teams # <<>>

\* a decimal numeral: an optional '+', then one or more digits
Unsigned(t) == IF Len(t) >= 1 /\ Ch(t, 1) = "+" THEN Rest(t) ELSE t
IsNumeral(t) ==
  Len(Unsigned(t)) >= 1 /\ \A i \in 1..Len(Unsigned(t)) : IsDigit(Ch(Unsigned(t), i))

\* the digits without their leading zeros (one digit is kept)
RECURSIVE Canon(_)
Canon(d) == IF Len(d) > 1 /\ Ch(d, 1) = "0" THEN Canon(Rest(d)) ELSE d

\* a canonical numeral that denotes at most 2^32 - 1 = 4294967295
InU32(c) ==
  \/ Len(c) < 10
  \/ /\ Len(c) = 10
     /\ \A i \in 1..10 :
          (\A j \in 1..(i - 1) : Ch(c, j) = Ch("4294967295", j))
            => DigitVal(Ch(c, i)) <= DigitVal(Ch("4294967295", i))

\* v is what a counter attribute k of attrs must give
CounterIs(attrs, k, v) ==
  IF HasAttr(attrs, k) /\ IsNumeral(Unwrap(GetAttr(attrs, k)))
       /\ InU32(Canon(Unsigned(Unwrap(GetAttr(attrs, k)))))
  THEN Fits(v) /\ ToDec(v) = Canon(Unsigned(Unwrap(GetAttr(attrs, k))))
  ELSE v = Zero

NamedWeaponStep ==
  /\ nread' = nread + 1
  /\ ev'.kind = "Empty" /\ ev'.name = "weapon" /\ HasAttr(ev'.attrs, "name")

BadBoolStep ==
  /\ nread' = nread + 1
  /\ ev'.kind = "Start" /\ ev'.name = "match" /\ HasAttr(ev'.attrs, "isTeamGame")
  /\ Unwrap(GetAttr(ev'.attrs, "isTeamGame")) \notin {"true", "false"}

\* C4: no event other than a structural error fails the parse; a weapon
\* element with a name gives the open Player a Weapon whose hits, shots and
\* kills are each the attribute's value when it is present and a decimal
\* numeral of at most 2^32 - 1, and 0 otherwise; an isTeamGame value that is
\* neither "true" nor "false" sets the flag to false
C4_Defaults ==
  [][/\ nread' = nread + 1 => result'.tag = "Pending"
     /\ (NamedWeaponStep /\ IsSome(current_player))
          => /\ IsSome(current_player')
             /\ Len(Unwrap(current_player').weapons) = Len(Unwrap(current_player).weapons) + 1
             /\ \A k \in {"hits", "shots", "kills"} :
                  CounterIs(ev'.attrs, k, Last(Unwrap(current_player').weapons)[k])
     /\ BadBoolStep => game_match'.is_team_game = FALSE]_vars

C4_Witness ==
  /\ ev.kind = "Empty" /\ ev.name = "weapon"
  /\ GetAttr(ev.attrs, "hits") = Some("x") /\ GetAttr(ev.attrs, "kills") = Some("4294967296")
  /\ IsSome(current_player)
  /\ Last(Unwrap(current_player).weapons) = Weapon("SG", Zero, Zero, Zero)
  /\ result.tag = "Pending"

\* C5 as stated: a successfully parsed document that opened a match element
\* without an isTeamGame attribute has the flag false
C5_Original ==
  (result.tag = "Ok" /\ "match without isTeamGame" \in seen)
    => result.value.is_team_game = FALSE

\* C5 (amended): a successfully parsed document that opened a match element
\* without an isTeamGame attribute, and no match element with
\* isTeamGame="true", has the flag false
C5_FlagFalse ==
  (result.tag = "Ok" /\ "match without isTeamGame" \in seen
     /\ "match with isTeamGame=true" \notin seen)
    => result.value.is_team_game = FALSE

C5_Witness ==
  /\ result.tag = "Ok"
  /\ "match without isTeamGame" \in seen
  /\ "match with isTeamGame=true" \notin seen
  /\ result.value.is_team_game = FALSE
  /\ result.value.teams # <<>>

StartsWith(s, p) == Len(p) <= Len(s) /\ SubSeq(s, 1, Len(p)) = p

C6_Denylist == {"MH", "RA", "YA", "GA", "Quad", "Haste", "Blue Flag", "Red Flag"}

SeqRange(seq) == {seq[i] : i \in 1..Len(seq)}
TeamsPlayers(teams) == UNION {SeqRange(t.players) : t \in SeqRange(teams)}

\* every player the parser holds: appended to the Match, in the open Team, open
AllPlayers ==
  TeamsPlayers(game_match.teams) \cup TeamsPlayers(current_team) \cup SeqRange(current_player)

\* C6: no player, open or appended, holds a statistic with a denylisted name,
\* and the formatted report has no statistic line for such a name
C6_NoDeniedStat ==
  /\ \A p \in AllPlayers : \A st \in SeqRange(p.stats) : st[1] \notin C6_Denylist
  /\ fmt = "done"
       => \A i \in 1..Len(output) :
            output[i].at = "stat"
              => \A b \in C6_Denylist : ~StartsWith(output[i].text, b \o ": ")

C6_Witness ==
  /\ ev.kind = "Empty" /\ ev.name = "stat"
  /\ GetAttr(ev.attrs, "name") = Some("MH") /\ HasAttr(ev.attrs, "value")
  /\ IsSome(current_player)
  /\ Unwrap(current_player).stats = << <<"Score", "7">> >>

\* C8 as stated: formatting a report parse_content returned never panics and
\* never has w.hits * 100 overflow
C8_FormatTotal ==
  /\ fmt # "panic"
  /\ fmt = "done" => ~ReportOverflows(result.value)

\* the pieces the formatter pushed at one site, in order
PiecesAt(site) == SelectSeq(output, LAMBDA p : p.at = site)

\* the weapon line of w when the accuracy shown is a
WeaponLine(w, a) ==
  escape_markdown(w.name) \o ": Shots: " \o ToDec(w.shots) \o " \\| Acc. "
    \o ToDec(Small(a)) \o "% \\| Kills: " \o ToDec(w.kills) \o "\n"

\* a = floor(hits * 100 / shots) in exact arithmetic, for shots > 0:
\* a * shots <= hits * 100 < (a + 1) * shots
IsFloorRatio(a, w) ==
  /\ ~Lt(HitsTimes100(w), MulSmall(w.shots, a))
  /\ Lt(HitsTimes100(w), MulSmall(w.shots, a + 1))

IsRefAccuracy(a, w) ==
  IF Ge(w.hits, w.shots) /\ w.hits # Zero THEN a = 100
  ELSE IF w.shots # Zero THEN IsFloorRatio(a, w)
  ELSE a = 0

\* C7 as stated: the accuracy on every weapon line of a formatted report is
\* the reference: 100 if hits >= shots and hits > 0, else
\* floor(hits * 100 / shots) in exact arithmetic if shots > 0, else 0
C7_AccuracyIsReference ==
  fmt = "done"
    => LET ws == TeamsWeapons(result.value.teams)
       IN /\ Len(PiecesAt("weapon")) = Len(ws)
          /\ \A i \in 1..Len(ws) :
               \E a \in 0..100 :
                 IsRefAccuracy(a, ws[i]) /\ PiecesAt("weapon")[i].text = WeaponLine(ws[i], a)

\* C9: the accuracy on every weapon line of a formatted report is in 0..100,
\* and it is 100 whenever hits >= shots and hits > 0
C9_AccuracyInRange ==
  fmt = "done"
    => LET ws == TeamsWeapons(result.value.teams)
       IN /\ Len(PiecesAt("weapon")) = Len(ws)
          /\ \A i \in 1..Len(ws) :
               \E a \in 0..100 :
                 /\ PiecesAt("weapon")[i].text = WeaponLine(ws[i], a)
                 /\ (Ge(ws[i].hits, ws[i].shots) /\ ws[i].hits # Zero) => a = 100

\* hits=50, shots=40: shown as 100, not 125
C9_Witness ==
  /\ fmt = "done"
  /\ TeamsWeapons(result.value.teams) = <<Weapon("MG", Small(50), Small(40), Small(2))>>
  /\ PiecesAt("weapon") = <<Piece("weapon", "MG: Shots: 40 \\| Acc. 100% \\| Kills: 2\n")>>

C10_Reserved ==
  {"*", "_", "[", "]", "(", ")", "~", ">", "#", "+", "-", "=", "|", "{", "}", ".", "!"}

\* out is field with a backslash put before each reserved character and
\* every other character passed through, in order
RECURSIVE IsEscaped(_, _)
IsEscaped(field, out) ==
  IF Len(field) = 0 THEN Len(out) = 0
  ELSE IF Ch(field, 1) \in C10_Reserved
       THEN /\ Len(out) >= 2
            /\ SubSeq(out, 1, 2) = "\\" \o Ch(field, 1)
            /\ IsEscaped(Rest(field), SubSeq(out, 3, Len(out)))
       ELSE /\ Len(out) >= 1
            /\ Ch(out, 1) = Ch(field, 1)
            /\ IsEscaped(Rest(field), Rest(out))

NReserved(field) == Cardinality({i \in 1..Len(field) : Ch(field, i) \in C10_Reserved})

\* the parts of a line: text of the formatter, a field escaped, a field verbatim
Lit(t) == [part |-> "lit", s |-> t]
Esc(f) == [part |-> "esc", s |-> f]
Raw(f) == [part |-> "raw", s |-> f]
PartLen(p) == IF p.part = "esc" THEN Len(p.s) + NReserved(p.s) ELSE Len(p.s)
PartIs(p, t) == IF p.part = "esc" THEN IsEscaped(p.s, t) ELSE t = p.s

\* text begins with the parts, in order (what follows them is not constrained)
RECURSIVE BeginsWith(_, _)
BeginsWith(text, parts) ==
  \/ parts = <<>>
  \/ /\ parts # <<>>
     /\ Len(text) >= PartLen(Head(parts))
     /\ PartIs(Head(parts), SubSeq(text, 1, PartLen(Head(parts))))
     /\ BeginsWith(SubSeq(text, PartLen(Head(parts)) + 1, Len(text)), Tail(parts))

\* text is exactly the parts, in order
Consists(text, parts) == BeginsWith(text, parts \o <<Lit("")>>) /\
  Len(text) = LET n[i \in 0..Len(parts)] == IF i = 0 THEN 0 ELSE n[i - 1] + PartLen(parts[i])
              IN n[Len(parts)]

RECURSIVE TeamsPlayersSeq(_)
TeamsPlayersSeq(ts) ==
  IF ts = <<>> THEN <<>> ELSE Head(ts).players \o TeamsPlayersSeq(Tail(ts))

RECURSIVE PlayersStats(_)
PlayersStats(ps) == IF ps = <<>> THEN <<>> ELSE Head(ps).stats \o PlayersStats(Tail(ps))

\* C10: in a formatted report the map, match type, duration, team score,
\* statistic names and values and weapon names appear with a backslash before
\* each reserved character and all their other characters unchanged and in
\* order; the player name appears verbatim
C10_FieldsEscaped ==
  fmt = "done"
    => LET m == result.value
           players == TeamsPlayersSeq(m.teams)
           stats == PlayersStats(players)
           ws == TeamsWeapons(m.teams)
       IN /\ Len(PiecesAt("summary")) = 1
          /\ Consists(PiecesAt("summary")[1].text,
                      <<Lit("Map: "), Esc(m.map), Lit(" \\| Type: "), Esc(m.match_type),
                        Lit(" \\| Duration: "), Esc(m.duration), Lit("\n\n")>>)
          /\ m.is_team_game
               => /\ Len(PiecesAt("team")) = Len(m.teams)
                  /\ \A i \in 1..Len(m.teams) :
                       Consists(PiecesAt("team")[i].text,
                                <<Lit("*" \o TeamLabel(i - 1) \o "*: *"), Esc(m.teams[i].score),
                                  Lit("*\n")>>)
          /\ Len(PiecesAt("player")) = Len(players)
          /\ \A i \in 1..Len(players) :
               Consists(PiecesAt("player")[i].text,
                        <<Lit(Fence \o "\nPlayer: "), Raw(players[i].name), Lit("\n")>>)
          /\ Len(PiecesAt("stat")) = Len(stats)
          /\ \A i \in 1..Len(stats) :
               Consists(PiecesAt("stat")[i].text,
                        <<Esc(stats[i][1]), Lit(": "), Esc(stats[i][2]), Lit("\n")>>)
          /\ Len(PiecesAt("weapon")) = Len(ws)
          /\ \A i \in 1..Len(ws) :
               BeginsWith(PiecesAt("weapon")[i].text, <<Esc(ws[i].name), Lit(": Shots: ")>>)

C10_Witness ==
  /\ fmt = "done"
  /\ result.value.map = "{~a|b}>!"
  /\ result.value.match_type = "a.b-c_d"
  /\ PiecesAt("summary")[1].text
       = "Map: \\{\\~a\\|b\\}\\>\\! \\| Type: a\\.b\\-c\\_d \\| Duration: \\{\\~a\\|b\\}\\>\\!\n\n"
  /\ PiecesAt("player")[1].text = Fence \o "\nPlayer: {~a|b}>!\n"

\* C11: a formatted report has a label line per team exactly when the
\* team-game flag is true: "Team One" for the team at index 0, "Team Two" for
\* a team at any other index, each with the team's score escaped; with the
\* flag false there is no label line at all
C11_TeamLabels ==
  fmt = "done"
    => LET m == result.value
       IN IF m.is_team_game
          THEN /\ Len(PiecesAt("team")) = Len(m.teams)
               /\ \A i \in 1..Len(m.teams) :
                    Consists(PiecesAt("team")[i].text,
                             <<Lit("*" \o (IF i = 1 THEN "Team One" ELSE "Team Two") \o "*: *"),
                               Esc(m.teams[i].score), Lit("*\n")>>)
          ELSE PiecesAt("team") = <<>>

C11_Witness ==
  /\ fmt = "done"
  /\ result.value.is_team_game
  /\ Len(result.value.teams) = 3
  /\ PiecesAt("team")[1].text = "*Team One*: *5*\n"
  /\ PiecesAt("team")[2].text = "*Team Two*: *5*\n"
  /\ PiecesAt("team")[3].text = "*Team Two*: *\\-1*\n"

TeamCloseStep ==
  nread' = nread + 1 /\ ev'.kind = "End" /\ LocalName(ev'.name) = "team"

IsPrefix(a, b) == Len(a) <= Len(b) /\ SubSeq(b, 1, Len(a)) = a

\* the team label lines and the player lines of the output, in order
Blocks == SelectSeq(output, LAMBDA p : p.at \in {"team", "player"})

\* the number of label and player lines of the first n teams of m
BlocksBefore(m, n) ==
  LET c[i \in 0..n] ==
        IF i = 0 THEN 0
        ELSE c[i - 1] + (IF m.is_team_game THEN 1 ELSE 0) + Len(m.teams[i].players)
  IN c[n]

StartStep(kind) == nread' = nread + 1 /\ ev'.kind = "Start" /\ ev'.name = kind

\* the open Team of this state is no longer the open Team after the step
TeamLeaves == IsSome(current_team) /\ (current_team' = None \/ StartStep("team"))

\* the open Player of this state is no longer the open Player after the step
PlayerLeaves == IsSome(current_player) /\ (current_player' = None \/ StartStep("player"))

\* C13 as stated: an open Team leaves the open slot only by being appended to
\* the Match, an open Player only by being appended to a Team (the open one,
\* or the one made for it), both at a close event of their kind; nothing that
\* was appended is modified afterwards; nothing is open at end-of-document
C13_MovedOnce ==
  [][/\ TeamLeaves
          => TeamCloseStep /\ game_match'.teams = Append(game_match.teams, Unwrap(current_team))
     /\ PlayerLeaves
          => /\ PlayerCloseStep
             /\ IF IsSome(current_team)
                THEN /\ IsSome(current_team')
                     /\ Unwrap(current_team').players
                          = Append(Unwrap(current_team).players, Unwrap(current_player))
                ELSE /\ Len(game_match'.teams) = Len(game_match.teams) + 1
                     /\ Last(game_match'.teams).players = <<Unwrap(current_player)>>
     /\ IsPrefix(game_match.teams, game_match'.teams)
     /\ (IsSome(current_team) /\ IsSome(current_team') /\ ~StartStep("team"))
          => IsPrefix(Unwrap(current_team).players, Unwrap(current_team').players)
     /\ ev'.kind = "Eof" => (current_team = None /\ current_player = None)]_vars

EmptyStep(kind) == nread' = nread + 1 /\ ev'.kind = "Empty" /\ ev'.name = kind

\* the value of attribute k in attrs (k is among them)
AttrValue(attrs, k) == attrs[CHOOSE i \in 1..Len(attrs) : attrs[i][1] = k][2]

HasKey(attrs, k) == \E i \in 1..Len(attrs) : attrs[i][1] = k

\* C14: a self-closing stat element with a name and a value, the name not
\* denylisted, read while a Player is open appends the pair (name, value) at
\* the end of that Player's statistics, keeping every earlier pair, and
\* changes nothing else; any other self-closing stat element changes neither
\* the Match, nor the open Team, nor the open Player
C14_StatEffect ==
  [][EmptyStep("stat")
       => IF /\ HasKey(ev'.attrs, "name") /\ HasKey(ev'.attrs, "value")
             /\ AttrValue(ev'.attrs, "name") \notin C6_Denylist
             /\ IsSome(current_player)
          THEN /\ current_player' # current_player
               /\ current_player'
                    = Some([name |-> Unwrap(current_player).name,
                            stats |-> Unwrap(current_player).stats
                                        \o << <<AttrValue(ev'.attrs, "name"),
                                                AttrValue(ev'.attrs, "value")>> >>,
                            weapons |-> Unwrap(current_player).weapons])
               /\ UNCHANGED <<game_match, current_team>>
          ELSE UNCHANGED <<game_match, current_team, current_player>>]_vars

\* the same statistic twice: both pairs are held
C14_Witness ==
  /\ ev.kind = "Empty" /\ ev.name = "stat"
  /\ IsSome(current_player)
  /\ Unwrap(current_player).stats = << <<"Score", "7">>, <<"Score", "7">> >>

\* C15: a self-closing weapon element with a name read while a Player is open
\* appends one Weapon of that name at the end of that Player's weapons and
\* changes nothing else; without a name, or with no Player open, it changes
\* neither the Match, nor the open Team, nor the open Player
C15_WeaponEffect ==
  [][EmptyStep("weapon")
       => IF HasKey(ev'.attrs, "name") /\ IsSome(current_player)
          THEN /\ IsSome(current_player')
               /\ Unwrap(current_player').name = Unwrap(current_player).name
               /\ Unwrap(current_player').stats = Unwrap(current_player).stats
               /\ Len(Unwrap(current_player').weapons) = Len(Unwrap(current_player).weapons) + 1
               /\ IsPrefix(Unwrap(current_player).weapons, Unwrap(current_player').weapons)
               /\ Last(Unwrap(current_player').weapons).name = AttrValue(ev'.attrs, "name")
               /\ UNCHANGED <<game_match, current_team>>
          ELSE UNCHANGED <<game_match, current_team, current_player>>]_vars

\* a weapon element without a name, dropped while a Player holding a weapon is open
C15_Witness ==
  /\ ev.kind = "Empty" /\ ev.name = "weapon" /\ ~HasKey(ev.attrs, "name")
  /\ IsSome(current_player)
  /\ Len(Unwrap(current_player).weapons) = 1
  /\ Unwrap(current_player).weapons[1].name = "MG"

C16_Kinds == {"match", "team", "player", "stat", "weapon"}

OtherElementStep ==
  /\ nread' = nread + 1
  /\ ev'.kind \in {"Start", "End", "Empty"}
  /\ ev'.name \notin C16_Kinds

\* C16 as stated: an open, close or self-closing event of an element whose
\* name is none of match, team, player, stat, weapon (x:team and x:player
\* among them) changes neither the Match, nor the open Team, nor the open
\* Player, and does not fail the parse
C16_OthersIgnored ==
  [][OtherElementStep
       => /\ UNCHANGED <<game_match, current_team, current_player>>
          /\ result'.tag = "Pending"]_vars

\* C17: a player close event read while a Player and a Team are open appends
\* the Player to the open Team and nothing to the Match; the open Team's score
\* is the score attribute of its team element ("" without one) from its
\* opening on, whatever "Score" statistic its players have
C17_PlayerIntoOpenTeam ==
  [][/\ (PlayerCloseStep /\ IsSome(current_player) /\ IsSome(current_team))
          => /\ current_team'
                  = Some([score |-> Unwrap(current_team).score,
                          players |-> Unwrap(current_team).players \o <<Unwrap(current_player)>>])
             /\ current_player' = None
             /\ game_match' = game_match
     /\ StartStep("team")
          => /\ IsSome(current_team')
             /\ Unwrap(current_team').score
                  = (IF HasKey(ev'.attrs, "score") THEN AttrValue(ev'.attrs, "score") ELSE "")
     /\ (IsSome(current_team) /\ IsSome(current_team') /\ ~StartStep("team"))
          => Unwrap(current_team').score = Unwrap(current_team).score
     /\ (TeamCloseStep /\ IsSome(current_team))
          => Last(game_match'.teams).score = Unwrap(current_team).score]_vars

\* a player with Score 7 closed into the open team of score 5
C17_Witness ==
  /\ ev.kind = "End" /\ ev.name = "player"
  /\ IsSome(current_team) /\ current_player = None
  /\ Unwrap(current_team).score = "5"
  /\ Len(Unwrap(current_team).players) = 1
  /\ Unwrap(current_team).players[1].stats = << <<"Score", "7">> >>
  /\ game_match.teams = <<>>

\* the value the opening of a match element with attrs gives a field that held
\* old, when an absent attribute means dflt
FieldAfter(attrs, k, dflt) == IF HasKey(attrs, k) THEN AttrValue(attrs, k) ELSE dflt

\* C18 as stated: right after the opening of a match element, map, match type
\* and duration are each the element's attribute, the empty string if absent
C18_Original ==
  [][StartStep("match")
       => /\ game_match'.map = FieldAfter(ev'.attrs, "map", "")
          /\ game_match'.match_type = FieldAfter(ev'.attrs, "type", "")
          /\ game_match'.duration = FieldAfter(ev'.attrs, "duration", "")]_vars

\* C18 (amended): right after the opening of a match element, map, match type
\* and duration are each the element's attribute if it is present and what
\* they were before the element if it is absent; that is the empty string when
\* no earlier match element was opened
C18_MatchFields ==
  [][StartStep("match")
       => /\ game_match'.map = FieldAfter(ev'.attrs, "map", game_match.map)
          /\ game_match'.match_type = FieldAfter(ev'.attrs, "type", game_match.match_type)
          /\ game_match'.duration = FieldAfter(ev'.attrs, "duration", game_match.duration)
          /\ "match" \notin seen
               => /\ game_match.map = "" /\ game_match.match_type = ""
                  /\ game_match.duration = ""]_vars

\* a second match element, with a type and no map: the map of the first stays
C18_Witness ==
  /\ ev.kind = "Start" /\ ev.name = "match"
  /\ ~HasKey(ev.attrs, "map") /\ HasKey(ev.attrs, "type")
  /\ game_match.map = "q3dm6"
  /\ game_match.match_type = "1v1"
  /\ game_match.duration = "10:00"

\* C20: a self-closing match, team or player element, and the open tag and
\* the close tag of a stat or weapon element, change neither the Match, nor
\* the open Team, nor the open Player
C20_WrongForm ==
  [][(\/ \E k \in {"match", "team", "player"} : EmptyStep(k)
      \/ /\ nread' = nread + 1
         /\ ev'.kind \in {"Start", "End"}
         /\ ev'.name \in {"stat", "weapon"})
       => UNCHANGED <<game_match, current_team, current_player>>]_vars

\* <stat name="Score" value="7"></stat> inside a player: no pair is held
C20_Witness ==
  /\ ev.kind = "End" /\ ev.name = "stat"
  /\ IsSome(current_player)
  /\ Unwrap(current_player).stats = <<>>
  /\ current_team = None /\ game_match = MatchDefault

\* how many entries of d are in S
Count(d, S) == Cardinality({i \in 1..Len(d) : d[i] \in S})

\* every entry of d that is in S is last but for the entry e right after it
EndsWith(d, S, e) ==
  \A i \in 1..Len(d) : d[i] \in S => (Len(d) = i + 1 /\ d[i + 1] = e)

\* what C19 says of the event received last, but for what ends the loop
C19_PerEvent ==
  LET d == mon.did
  IN /\ Count(d, {"read:ok", "read:err"}) <= 1
     /\ Count(d, {"parse:ok", "parse:err"}) <= 1
     /\ Count(d, {"send:ok", "send:err"}) <= 1
     /\ \A i \in 1..Len(d) :
          d[i] \in {"send:ok", "send:err"}
            => \E j, k \in 1..(i - 1) : j < k /\ d[j] = "read:ok" /\ d[k] = "parse:ok"
     /\ mon.msg # <<>> => \E k \in 1..Len(d) : d[k] = "parse:ok"
     /\ EndsWith(d, {"read:err"}, "log:read")
     /\ EndsWith(d, {"parse:err"}, "log:parse")
     /\ EndsWith(d, {"send:err"}, "log:send")
     /\ (\E i \in 1..Len(d) : d[i] \in {"read:err", "parse:err", "send:err", "send:ok"})
          => mon.pc = "recv"
     /\ (mon.event.kind # "create" \/ mon.event.path # "file")
          => \A i \in 1..Len(d) : d[i] \in {"log:watcher", "log:channel"}

\* C19 as stated: for each event a message is sent at most once and only
\* after the file was read and parsed; a read, parse or send failure is logged
\* and the loop waits for the next event without a retry; directories and
\* events that are no creation cause no read, parse or send; and the loop ends
\* only on a channel receive error
C19_MonitorPolicy ==
  /\ C19_PerEvent
  /\ mon.pc \notin {"recv", "read", "send"}
       => (mon.pc = "stopped" /\ mon.event.kind = "chanerr")

====
